---- MODULE Spec2Model ----
(***************************************************************************)
(* The radial behaviour chart (src/src/App.tsx; src/unnamed/part_000 is    *)
(* the extended variant with the same state logic): the persisted          *)
(* {categories, events} state, the event and category forms, month         *)
(* navigation, the derived month view and the localStorage shim.           *)
(*                                                                         *)
(* Representation.  A Date object is represented by its calendar fields    *)
(* [y, mo (1..12), d, h, mi] in the browser's time zone, which lies        *)
(* TzHoursBehindUTC hours behind UTC and has no DST; an ISO text is        *)
(* represented by the same fields in UTC.  toISOString converts the        *)
(* former to the latter and new Date(iso) converts back.                   *)
(* A localStorage text that is JSON is represented by the JSON value it    *)
(* denotes; JSON values are tagged records [t |-> "null" | "num" | "str" | *)
(* "list" | "obj", v |-> ...]; the elements of the two lists are objects,  *)
(* represented as functions from property names to values.                 *)
(* Ids and texts are strings; icons are named in ASCII ("mark" is the      *)
(* default glyph of a new category).                                       *)
(* The numbers of the chart's geometry are doubles, computed with the      *)
(* rounding of every operation; the chart size and the days are integers.  *)
(* An observed width is given in tenths of a pixel.                        *)
(***************************************************************************)
EXTENDS Integers, Sequences, FiniteSets, TLC

VARIABLES
    pc,                 \* "boot" (module loaded, App not mounted), "running", "crashed"
    storage,            \* localStorage[LS_KEY]
    DEFAULT_CATEGORIES, \* the module constant, its ids drawn by uid at module load
    monthRef,           \* useState: first day of the displayed month (a Date)
    categories,         \* useState<Category[]>
    events,             \* useState<EventItem[]>
    formDate, formTime, formCategory, formIcon, formNote,  \* event form
    newCatName, newCatIcon, newCatColor,                   \* category form
    lastWrite,          \* outcome of the latest localStorage.setItem: "none", "ok", "failed"
    lastOp,             \* the latest of mount, addEvent, deleteEvent, clearMonthEvents, addCategory
                        \* that ran, and whether it changed a collection
    inputs,             \* number of form edits, size changes and failed storage writes so far
    boxSize             \* useState: the side of the chart's square, in pixels

vars == <<pc, storage, DEFAULT_CATEGORIES, monthRef, categories, events,
          formDate, formTime, formCategory, formIcon, formNote,
          newCatName, newCatIcon, newCatColor, lastWrite, lastOp, inputs, boxSize>>

formVars == <<formDate, formTime, formCategory, formIcon, formNote>>
catFormVars == <<newCatName, newCatIcon, newCatColor>>

----------------------------------------------------------------------------
(* Bounds of the model. *)

MaxEvents == 2          \* addEvent is explored while fewer events than this exist
MaxInputs == 1          \* form field edits, size changes and failing storage writes per session
MaxNav == 1             \* month navigation stays within this many months of today
TzHoursBehindUTC == 5   \* the browser's time zone, hours behind UTC

----------------------------------------------------------------------------
(* JavaScript values. *)

undefined == "<undefined>"

JNull == [t |-> "null"]
JUndefined == [t |-> "undefined"]
JNum(n) == [t |-> "num", v |-> n]
JStr(s) == [t |-> "str", v |-> s]
JList(s) == [t |-> "list", v |-> s]
JObj(f) == [t |-> "obj", v |-> f]

IsArray(x) == x.t = "list"

\* JavaScript truthiness, as used by ||.
Truthy(x) ==
    CASE x.t \in {"null", "undefined"} -> FALSE
      [] x.t = "num" -> x.v # 0
      [] x.t = "str" -> x.v # ""
      [] OTHER -> TRUE

\* x?.k : undefined on null/undefined, the property when x is an object that
\* has it, undefined otherwise (numbers, strings and arrays have no such property).
OptProp(x, k) ==
    IF x.t = "obj" /\ k \in DOMAIN x.v THEN x.v[k] ELSE JUndefined

\* o.k on an element object: undefined when the property is absent.
Get(o, k) == IF k \in DOMAIN o THEN o[k] ELSE undefined

\* The properties of the element types that may hold undefined (icon?, note?).
OptionalKeys == {"icon", "note"}

----------------------------------------------------------------------------
(* JavaScript numbers: IEEE-754 doubles, every operation rounded to the     *)
(* nearest double, ties to even.  A number is [neg, mag], mag its magnitude *)
(* in units of 2^-FracBits written in base Base, lowest limb first (zero is *)
(* the empty sequence); every double that occurs is a multiple of the unit. *)

Base == 4096
LimbBits == 12
FracBits == 72
Precision == 53

RECURSIVE Pow2(_)
Pow2(k) == IF k = 0 THEN 1 ELSE 2 * Pow2(k - 1)

RECURSIVE BigOf(_)
BigOf(n) == IF n = 0 THEN <<>> ELSE <<n % Base>> \o BigOf(n \div Base)

RECURSIVE BigTrim(_)
BigTrim(a) ==
    IF a = <<>> THEN <<>>
    ELSE IF a[Len(a)] = 0 THEN BigTrim(SubSeq(a, 1, Len(a) - 1)) ELSE a

RECURSIVE BigCmpFrom(_, _, _)
BigCmpFrom(a, b, i) ==
    IF i = 0 THEN 0
    ELSE IF a[i] < b[i] THEN -1
    ELSE IF a[i] > b[i] THEN 1
    ELSE BigCmpFrom(a, b, i - 1)

\* -1, 0 or 1 as a is less than, equal to or greater than b.
BigCmp(a, b) ==
    IF Len(a) < Len(b) THEN -1
    ELSE IF Len(a) > Len(b) THEN 1
    ELSE BigCmpFrom(a, b, Len(a))

RECURSIVE BigAddCarry(_, _, _)
BigAddCarry(a, b, c) ==
    IF a = <<>> /\ b = <<>> THEN (IF c = 0 THEN <<>> ELSE <<c>>)
    ELSE LET x == IF a = <<>> THEN 0 ELSE Head(a)
             y == IF b = <<>> THEN 0 ELSE Head(b)
             t == x + y + c
         IN <<t % Base>> \o BigAddCarry(IF a = <<>> THEN <<>> ELSE Tail(a),
                                        IF b = <<>> THEN <<>> ELSE Tail(b),
                                        t \div Base)

BigAdd(a, b) == BigAddCarry(a, b, 0)

RECURSIVE BigSubBorrow(_, _, _)
BigSubBorrow(a, b, c) ==
    IF a = <<>> THEN <<>>
    ELSE LET y == IF b = <<>> THEN 0 ELSE Head(b)
             t == Head(a) - y - c
         IN <<IF t < 0 THEN t + Base ELSE t>>
            \o BigSubBorrow(Tail(a), IF b = <<>> THEN <<>> ELSE Tail(b),
                            IF t < 0 THEN 1 ELSE 0)

\* a - b for a >= b.
BigSub(a, b) == BigTrim(BigSubBorrow(a, b, 0))

RECURSIVE BigMulCarry(_, _, _)
BigMulCarry(a, k, c) ==
    IF a = <<>> THEN BigOf(c)
    ELSE LET t == Head(a) * k + c
         IN <<t % Base>> \o BigMulCarry(Tail(a), k, t \div Base)

\* a * k for a small integer k.
BigMulSmall(a, k) == BigTrim(BigMulCarry(a, k, 0))

RECURSIVE BigMul(_, _)
BigMul(a, b) ==
    IF a = <<>> \/ b = <<>> THEN <<>>
    ELSE BigAdd(BigMulSmall(b, Head(a)), BigTrim(<<0>> \o BigMul(Tail(a), b)))

RECURSIVE BigDivRem(_, _)
\* Quotient (untrimmed) and remainder of a by a small positive integer k.
BigDivRem(a, k) ==
    IF a = <<>> THEN [q |-> <<>>, r |-> 0]
    ELSE LET hi == BigDivRem(Tail(a), k)
             cur == hi.r * Base + Head(a)
         IN [q |-> <<cur \div k>> \o hi.q, r |-> cur % k]

BigDivSmall(a, k) ==
    [q |-> BigTrim(BigDivRem(a, k).q), r |-> BigDivRem(a, k).r]

RECURSIVE BigShiftLeft(_, _)
BigShiftLeft(a, s) ==
    IF a = <<>> THEN <<>>
    ELSE IF s >= LimbBits THEN <<0>> \o BigShiftLeft(a, s - LimbBits)
    ELSE BigMulSmall(a, Pow2(s))

RECURSIVE BigShiftRight(_, _)
BigShiftRight(a, s) ==
    IF a = <<>> THEN <<>>
    ELSE IF s >= LimbBits THEN BigShiftRight(Tail(a), s - LimbBits)
    ELSE BigDivSmall(a, Pow2(s)).q

RECURSIVE SmallBitLen(_)
SmallBitLen(n) == IF n = 0 THEN 0 ELSE 1 + SmallBitLen(n \div 2)

BigBitLen(a) ==
    IF a = <<>> THEN 0 ELSE LimbBits * (Len(a) - 1) + SmallBitLen(a[Len(a)])

BigIsOdd(a) == a # <<>> /\ a[1] % 2 = 1

\* The multiple of the unit nearest to an exact magnitude, kept to Precision
\* significant bits, ties to even.  The exact magnitude is a plus, when sticky,
\* something positive below one unit.
RoundToDouble(a, sticky) ==
    LET s == BigBitLen(a) - Precision
    IN IF s <= 0 THEN a
       ELSE LET q == BigShiftRight(a, s)
                r == BigSub(a, BigShiftLeft(q, s))
                half == BigCmp(r, BigShiftLeft(<<1>>, s - 1))
                up == half > 0 \/ (half = 0 /\ (sticky \/ BigIsOdd(q)))
            IN BigShiftLeft(IF up THEN BigAdd(q, <<1>>) ELSE q, s)

\* A number from its sign and magnitude; zero carries no sign.
Signed(neg, mag) == [neg |-> neg /\ mag # <<>>, mag |-> mag]

\* The number of an integer.
Num(n) == Signed(n < 0, BigShiftLeft(BigOf(IF n < 0 THEN -n ELSE n), FracBits))

\* x / k for a positive integer k.
NumDiv(x, k) ==
    LET d == BigDivSmall(x.mag, k)
    IN Signed(x.neg, RoundToDouble(d.q, d.r # 0))

\* The decimal literal n/d: the double nearest to it.
Literal(n, d) == NumDiv(Num(n), d)

\* x * y
NumMul(x, y) ==
    Signed(x.neg # y.neg,
           BigShiftRight(RoundToDouble(BigMul(x.mag, y.mag), FALSE), FracBits))

\* x + y and x - y
NumAdd(x, y) ==
    IF x.neg = y.neg THEN Signed(x.neg, RoundToDouble(BigAdd(x.mag, y.mag), FALSE))
    ELSE IF BigCmp(x.mag, y.mag) >= 0
         THEN Signed(x.neg, RoundToDouble(BigSub(x.mag, y.mag), FALSE))
         ELSE Signed(y.neg, RoundToDouble(BigSub(y.mag, x.mag), FALSE))

NumNeg(x) == Signed(~x.neg, x.mag)

NumSub(x, y) == NumAdd(x, NumNeg(y))

\* x < y
NumLess(x, y) ==
    IF x.neg /\ ~y.neg THEN TRUE
    ELSE IF ~x.neg /\ y.neg THEN FALSE
    ELSE IF x.neg THEN BigCmp(x.mag, y.mag) > 0
    ELSE BigCmp(x.mag, y.mag) < 0

\* Math.max and Math.min
MathMax(x, y) == IF NumLess(x, y) THEN y ELSE x
MathMin(x, y) == IF NumLess(y, x) THEN y ELSE x

\* Math.PI: 7074237752028440 * 2^-51.
MathPI == [neg |-> FALSE, mag |-> <<0, 0, 1443, 2184, 3946, 579, 3>>]

----------------------------------------------------------------------------
(* Utilities. *)

\* The suffixes explored: one that a default category drew too, and a fresh one.
UidSuffixes == {"d6", "r1"}

\* uid(prefix): prefix, "_" and a random base-36 suffix; the set of results.
uid(prefix) == {prefix \o "_" \o s : s \in UidSuffixes}

\* Variant: only the upper limit is applied.
clamp_noMinimum(v, min, max) == IF max < v THEN max ELSE v

\* Math.max(min, Math.min(max, v)) on integers.
clamp(v, min, max) ==
    LET capped == IF max < v THEN max ELSE v
    IN IF min > capped THEN min ELSE capped

IsLeap(y) == (y % 4 = 0 /\ y % 100 # 0) \/ y % 400 = 0

DaysIn(y, mo) ==
    CASE mo = 2 -> IF IsLeap(y) THEN 29 ELSE 28
      [] mo \in {4, 6, 9, 11} -> 30
      [] OTHER -> 31

NextDay(f) ==
    IF f.d < DaysIn(f.y, f.mo) THEN [f EXCEPT !.d = f.d + 1]
    ELSE IF f.mo < 12 THEN [f EXCEPT !.mo = f.mo + 1, !.d = 1]
    ELSE [f EXCEPT !.y = f.y + 1, !.mo = 1, !.d = 1]

PrevDay(f) ==
    IF f.d > 1 THEN [f EXCEPT !.d = f.d - 1]
    ELSE IF f.mo > 1 THEN [f EXCEPT !.mo = f.mo - 1, !.d = DaysIn(f.y, f.mo - 1)]
    ELSE [f EXCEPT !.y = f.y - 1, !.mo = 12, !.d = 31]

\* Calendar fields in the local zone -> the same instant's fields in UTC, and back.
LocalToUTC(f) ==
    IF f.h + TzHoursBehindUTC >= 24
    THEN [NextDay(f) EXCEPT !.h = f.h + TzHoursBehindUTC - 24]
    ELSE [f EXCEPT !.h = f.h + TzHoursBehindUTC]

UTCToLocal(f) ==
    IF f.h - TzHoursBehindUTC < 0
    THEN [PrevDay(f) EXCEPT !.h = f.h - TzHoursBehindUTC + 24]
    ELSE [f EXCEPT !.h = f.h - TzHoursBehindUTC]

\* new Date(year, monthIndex, day, hours, minutes, 0, 0): local fields, a year in
\* 0..99 means 1900 + year, a month index outside 0..11 carries into the year,
\* day 0 is the last day of the month before.
NewDate(year, monthIndex, day, hours, minutes) ==
    LET y0 == IF year \in 0..99 THEN 1900 + year ELSE year
        y1 == IF monthIndex < 0 THEN y0 - 1 ELSE IF monthIndex > 11 THEN y0 + 1 ELSE y0
        m1 == IF monthIndex < 0 THEN monthIndex + 12
              ELSE IF monthIndex > 11 THEN monthIndex - 12 ELSE monthIndex
        first == [y |-> y1, mo |-> m1 + 1, d |-> 1, h |-> hours, mi |-> minutes]
    IN IF day = 0 THEN PrevDay(first) ELSE [first EXCEPT !.d = day]

\* Date.prototype.toISOString and new Date(isoString).
toISOString(date) == LocalToUTC(date)
DateFromISO(iso) == UTCToLocal(iso)

getFullYear(date) == date.y
getMonth(date) == date.mo - 1
getDate(date) == date.d
getHours(date) == date.h
getMinutes(date) == date.mi

\* Variant: day 0 of the month itself, the last day of the month before.
daysInMonth_ofMonthBefore(date) == getDate(NewDate(getFullYear(date), getMonth(date), 0, 0, 0))

daysInMonth(date) == getDate(NewDate(getFullYear(date), getMonth(date) + 1, 0, 0, 0))

\* Variant: the months compared without the years.
isSameMonth_monthOnly(a, b) == getMonth(a) = getMonth(b)

isSameMonth(a, b) ==
    getFullYear(a) = getFullYear(b) /\ getMonth(a) = getMonth(b)

\* The values an <input type="date"> / <input type="time"> hands to the form,
\* with the numbers that split("-").map(Number) / split(":").map(Number) read.
DateInputs ==
    {[text |-> "2025-01-31", y |-> 2025, m |-> 1, d |-> 31],
     [text |-> "2025-01-15", y |-> 2025, m |-> 1, d |-> 15],
     [text |-> "2024-12-31", y |-> 2024, m |-> 12, d |-> 31],
     [text |-> "0050-01-15", y |-> 50, m |-> 1, d |-> 15]}

TimeInputs ==
    {[text |-> "08:00", hh |-> 8, mm |-> 0],
     [text |-> "20:30", hh |-> 20, mm |-> 30]}

SplitDate(dateStr) == CHOOSE r \in DateInputs : r.text = dateStr
SplitTime(timeStr) == CHOOSE r \in TimeInputs : r.text = timeStr

parseDateValue(dateStr, timeStr) ==
    LET ymd == SplitDate(dateStr)
        hm == SplitTime(timeStr)
    IN NewDate(ymd.y, ymd.m - 1, ymd.d, hm.hh, IF hm.mm # 0 THEN hm.mm ELSE 0)

\* String.prototype.trim on the texts the forms are given.
TextInputs == {"", " ", " x "}
trim(s) ==
    CASE s = " " -> ""
      [] s = " x " -> "x"
      [] OTHER -> s

\* new Date(): the current local date of the session.
Today == [y |-> 2025, mo |-> 1, d |-> 31]

----------------------------------------------------------------------------
(* Persistent state in localStorage. *)

LsAbsent == [k |-> "absent"]          \* getItem returns null
LsText(s) == [k |-> "text", s |-> s]  \* a text that is not JSON
LsJson(v) == [k |-> "json", v |-> v]  \* the JSON text of the value v

\* Variant: a property holding undefined is written as an empty text.
stringifyObject_blankForUndefined(o) ==
    [k \in DOMAIN o |-> IF k \in OptionalKeys /\ o[k] = undefined THEN "" ELSE o[k]]

\* JSON.stringify drops the properties of an object that hold undefined.
stringifyObject(o) ==
    [k \in {j \in DOMAIN o : ~(j \in OptionalKeys /\ o[j] = undefined)} |-> o[k]]

stringifyList(s) == JList([i \in 1..Len(s) |-> stringifyObject(s[i])])

\* JSON.stringify({categories, events})
JSONstringify(state) ==
    JObj([categories |-> stringifyList(state.categories),
          events |-> stringifyList(state.events)])

\* loadState: null when the item is absent or empty (!raw) or when JSON.parse
\* throws; otherwise whatever value the text denotes.
loadState(ls) ==
    CASE ls.k = "absent" -> JNull
      [] ls.k = "text" -> JNull
      [] OTHER -> ls.v

\* Variant: setItem outside any try/catch, so that its exception leaves saveState.
saveState_noCatch(ls, state, writeOk) ==
    [storage |-> IF writeOk THEN LsJson(JSONstringify(state)) ELSE ls,
     threw |-> ~writeOk]

\* saveState: setItem inside try/catch.  writeOk is whether setItem succeeds.
\* The result is the stored item and whether an exception leaves saveState.
saveState(ls, state, writeOk) ==
    [storage |-> IF writeOk THEN LsJson(JSONstringify(state)) ELSE ls,
     threw |-> FALSE]

----------------------------------------------------------------------------
(* The derived month view. *)

RECURSIVE insertByDay(_, _)
\* Position of ev in a list sorted by day: after every element whose day is not larger.
insertByDay(sorted, ev) ==
    IF sorted = <<>> THEN <<ev>>
    ELSE IF getDate(DateFromISO(Head(sorted).datetimeISO)) <= getDate(DateFromISO(ev.datetimeISO))
         THEN <<Head(sorted)>> \o insertByDay(Tail(sorted), ev)
         ELSE <<ev>> \o sorted

RECURSIVE sortByDay(_)
\* Array.prototype.sort with the comparator getDate(a) - getDate(b): a stable sort.
sortByDay(s) ==
    IF s = <<>> THEN <<>>
    ELSE insertByDay(sortByDay(SubSeq(s, 1, Len(s) - 1)), s[Len(s)])

inDisplayedMonth(ev, mref) == isSameMonth(DateFromISO(ev.datetimeISO), mref)

\* events.filter(ev => isSameMonth(new Date(ev.datetimeISO), monthRef)), then sorted.
monthEvents(evs, mref) ==
    LET shown(ev) == inDisplayedMonth(ev, mref)
    IN sortByDay(SelectSeq(evs, shown))

\* Variant: the sort applied to the events array itself, ahead of the filter.
renderMonthEvents_sortsEvents(evs, mref) ==
    [events |-> sortByDay(evs), monthEvents |-> monthEvents(sortByDay(evs), mref)]

\* What a render leaves behind: filter builds a new array and sort reorders that
\* array in place, so the events array is as it was before the render.
renderMonthEvents(evs, mref) ==
    [events |-> evs, monthEvents |-> monthEvents(evs, mref)]

----------------------------------------------------------------------------
(* Default data. *)

DefaultCategoriesWith(ids) ==
    <<[id |-> ids[1], name |-> "Mineria ilegal", icon |-> "pick", color |-> "#dc2626"],
      [id |-> ids[2], name |-> "Delitos hidrocarburiferos", icon |-> "fuel", color |-> "#7c3aed"],
      [id |-> ids[3], name |-> "Tala ilegal", icon |-> "tree", color |-> "#16a34a"],
      [id |-> ids[4], name |-> "Protestas sociales", icon |-> "sign", color |-> "#eab308"],
      [id |-> ids[5], name |-> "GIA", icon |-> "warn", color |-> "#2563eb"],
      [id |-> ids[6], name |-> "Trafico de armas", icon |-> "gun", color |-> "#fb7185"]>>

\* The six uid("cat") draws made when the module is loaded.
DefaultIdDraws ==
    {<<"cat_d1", "cat_d2", "cat_d3", "cat_d4", "cat_d5", "cat_d6">>}

----------------------------------------------------------------------------
(* The App component: state initialisers and first render. *)

\* Variant: an empty list, not the defaults, when nothing usable is stored.
initialCategories_emptyFallback(ls, defaults) ==
    LET c == OptProp(loadState(ls), "categories")
    IN IF Truthy(c) THEN c ELSE JList(<<>>)

\* loadState()?.categories || DEFAULT_CATEGORIES
initialCategories(ls, defaults) ==
    LET c == OptProp(loadState(ls), "categories")
    IN IF Truthy(c) THEN c ELSE JList(defaults)

\* loadState()?.events || []
initialEvents(ls) ==
    LET e == OptProp(loadState(ls), "events")
    IN IF Truthy(e) THEN e ELSE JList(<<>>)

\* categories[0]?.id || ""
initialFormCategory(c) ==
    IF IsArray(c) /\ Len(c.v) > 0 /\ Get(c.v[1], "id") # undefined
    THEN Get(c.v[1], "id") ELSE ""

\* Rendering calls categories.map and events.filter: a TypeError unless both are arrays.
renderThrows(c, e) == ~IsArray(c) \/ ~IsArray(e)

\* new Date(now.getFullYear(), now.getMonth(), 1)
initialMonthRef == NewDate(Today.y, Today.mo - 1, 1, 0, 0)

\* yyyy-mm-dd of today
initialFormDate ==
    (CHOOSE r \in DateInputs : r.y = Today.y /\ r.m = Today.mo /\ r.d = Today.d).text

\* Stored items a session may start from.
SavedCategory == [id |-> "cat_s1", name |-> "Saved", icon |-> "s", color |-> "#000000"]

\* A stored event, of a category that is not stored.
SavedEvent ==
    [id |-> "ev_s1",
     datetimeISO |-> [y |-> 2025, mo |-> 1, d |-> 20, h |-> 15, mi |-> 0],
     categoryId |-> "cat_gone"]

InitialStorage ==
    {LsAbsent, LsText(""), LsText("not json"),
     LsJson(JNum(5)),
     LsJson(JObj([categories |-> JNum(0)])),
     LsJson(JObj([categories |-> JNum(5), events |-> JList(<<>>)])),
     LsJson(JObj([categories |-> JList(<<SavedCategory>>), events |-> JStr("x")])),
     LsJson(JObj([categories |-> JList(<<>>), events |-> JList(<<SavedEvent>>)]))}

Init ==
    /\ pc = "boot"
    /\ storage \in InitialStorage
    /\ DEFAULT_CATEGORIES \in {DefaultCategoriesWith(ids) : ids \in DefaultIdDraws}
    /\ monthRef = initialMonthRef
    /\ categories = <<>>
    /\ events = <<>>
    /\ formDate = "" /\ formTime = "" /\ formCategory = "" /\ formIcon = "" /\ formNote = ""
    /\ newCatName = "" /\ newCatIcon = "" /\ newCatColor = ""
    /\ lastWrite = "none"
    /\ lastOp = [name |-> "none", changed |-> FALSE]
    /\ inputs = 0
    /\ boxSize = 800

\* Which outcomes of a storage write are explored.
WriteOutcomes == IF inputs < MaxInputs THEN {TRUE, FALSE} ELSE {TRUE}

\* Variant: the effect depends on [events] alone and is skipped when only the
\* categories are a new value.
persistEffect_eventsOnly(cats, evs, writeOk) ==
    IF evs = events
    THEN /\ pc' = "running"
         /\ UNCHANGED <<storage, lastWrite, inputs>>
    ELSE LET r == saveState(storage, [categories |-> cats, events |-> evs], writeOk)
         IN /\ storage' = r.storage
            /\ lastWrite' = IF writeOk THEN "ok" ELSE "failed"
            /\ inputs' = IF writeOk THEN inputs ELSE inputs + 1
            /\ pc' = IF r.threw THEN "crashed" ELSE "running"

\* useEffect(() => saveState({categories, events}), [categories, events]) running
\* after a render in which categories or events is a new value.
persistEffect(cats, evs, writeOk) ==
    LET r == saveState(storage, [categories |-> cats, events |-> evs], writeOk)
    IN /\ storage' = r.storage
       /\ lastWrite' = IF writeOk THEN "ok" ELSE "failed"
       /\ inputs' = IF writeOk THEN inputs ELSE inputs + 1
       /\ pc' = IF r.threw THEN "crashed" ELSE "running"

\* Mounting App: the state initialisers, the first render, the first effect.
Mount ==
    /\ pc = "boot"
    /\ LET c == initialCategories(storage, DEFAULT_CATEGORIES)
           e == initialEvents(storage)
       IN IF renderThrows(c, e)
          THEN /\ pc' = "crashed"
               /\ lastOp' = [name |-> "mount", changed |-> FALSE]
               /\ UNCHANGED <<storage, DEFAULT_CATEGORIES, boxSize, monthRef, categories, events,
                              formVars, catFormVars, lastWrite, inputs>>
          ELSE /\ categories' = c.v
               /\ events' = renderMonthEvents(e.v, initialMonthRef).events
               /\ monthRef' = initialMonthRef
               /\ formDate' = initialFormDate
               /\ formTime' = "08:00"
               /\ formCategory' = initialFormCategory(c)
               /\ formIcon' = "" /\ formNote' = ""
               /\ newCatName' = "" /\ newCatIcon' = "mark" /\ newCatColor' = "#0ea5e9"
               /\ lastOp' = [name |-> "mount", changed |-> TRUE]
               /\ \E writeOk \in WriteOutcomes : persistEffect(c.v, events', writeOk)
               /\ UNCHANGED <<DEFAULT_CATEGORIES, boxSize>>

----------------------------------------------------------------------------
(* Month navigation. *)

\* Months since year 0 of the month a Date lies in.
monthIndex(date) == getFullYear(date) * 12 + getMonth(date)

\* Variant: the month before within the same year, without the carry into the year.
prevMonthRef_sameYear(m) ==
    [y |-> getFullYear(m), mo |-> IF getMonth(m) = 0 THEN 12 ELSE getMonth(m),
     d |-> 1, h |-> 0, mi |-> 0]

prevMonthRef(m) == NewDate(getFullYear(m), getMonth(m) - 1, 1, 0, 0)
nextMonthRef(m) == NewDate(getFullYear(m), getMonth(m) + 1, 1, 0, 0)

PrevMonth ==
    /\ pc = "running"
    /\ monthIndex(monthRef) - monthIndex(initialMonthRef) > -MaxNav
    /\ monthRef' = prevMonthRef(monthRef)
    /\ events' = renderMonthEvents(events, monthRef').events
    /\ UNCHANGED <<pc, storage, DEFAULT_CATEGORIES, boxSize, categories, formVars,
                   catFormVars, lastWrite, lastOp, inputs>>

NextMonth ==
    /\ pc = "running"
    /\ monthIndex(monthRef) - monthIndex(initialMonthRef) < MaxNav
    /\ monthRef' = nextMonthRef(monthRef)
    /\ events' = renderMonthEvents(events, monthRef').events
    /\ UNCHANGED <<pc, storage, DEFAULT_CATEGORIES, boxSize, categories, formVars,
                   catFormVars, lastWrite, lastOp, inputs>>

----------------------------------------------------------------------------
(* Responsive size and the geometry of the chart. *)

\* The widths (contentRect.width, in tenths of a pixel) the observer reports.
Widths == {2999, 8004, 10416, 12000}

\* Math.floor of a width.
MathFloor(width) == width \div 10

\* Variant: no minimum.
observedSize_noMinimum(width) ==
    IF MathFloor(width) < 1100 THEN MathFloor(width) ELSE 1100

\* w = Math.max(320, Math.floor(width)); s = Math.min(w, 1100)
observedSize(width) ==
    LET w == IF MathFloor(width) > 320 THEN MathFloor(width) ELSE 320
    IN IF w < 1100 THEN w ELSE 1100

\* Variant: the size moves halfway from the size before to the observed one.
nextBoxSize_smoothed(prev, width) == (prev + observedSize(width)) \div 2

\* setBoxSize(s): the new size, given the size before and the observed width.
nextBoxSize(prev, width) == observedSize(width)

\* The ResizeObserver callback, for one entry.  Observing a width that gives the
\* current size changes nothing.
Resize(width) ==
    /\ pc = "running"
    /\ nextBoxSize(boxSize, width) # boxSize => inputs < MaxInputs
    /\ boxSize' = nextBoxSize(boxSize, width)
    /\ inputs' = IF boxSize' # boxSize THEN inputs + 1 ELSE inputs
    /\ UNCHANGED <<pc, storage, DEFAULT_CATEGORIES, monthRef, categories, events,
                   formVars, catFormVars, lastWrite, lastOp>>

padding == 20

\* nDays = daysInMonth(monthRef); ringCount = nDays
nDays(mref) == daysInMonth(mref)

\* Math.max(32, size * 0.05)
innerR(size) == MathMax(Num(32), NumMul(Num(size), Literal(1, 20)))

\* (size / 2) - padding
outerR(size) == NumSub(NumDiv(Num(size), 2), Num(padding))

\* The extended variant: Math.max(24, size * 0.08), (size / 2) - (padding + labelMargin)
labelMargin(size) == MathMax(Num(24), NumMul(Num(size), Literal(2, 25)))

outerRWithLabels(size) ==
    NumSub(NumDiv(Num(size), 2), NumAdd(Num(padding), labelMargin(size)))

\* (outerR - innerR) / ringCount
ringStep(outer, inner, ringCount) == NumDiv(NumSub(outer, inner), ringCount)

\* What a render computes from the size and the displayed month.
layout(size, mref) ==
    [size |-> size, innerR |-> innerR(size), outerR |-> outerR(size),
     ringCount |-> nDays(mref),
     ringStep |-> ringStep(outerR(size), innerR(size), nDays(mref))]

layoutWithLabels(size, mref) ==
    [size |-> size, innerR |-> innerR(size), outerR |-> outerRWithLabels(size),
     labelMargin |-> labelMargin(size), ringCount |-> nDays(mref),
     ringStep |-> ringStep(outerRWithLabels(size), innerR(size), nDays(mref))]

\* innerR + clamp(day, 1, ringCount) * ringStep, within a render's layout L.
radiusForDay(day, L) ==
    NumAdd(L.innerR, NumMul(Num(clamp(day, 1, L.ringCount)), L.ringStep))

\* Variant: the minutes are left out of t.
angleForTime_hoursOnly(date) ==
    LET t == Num(getHours(date))
    IN NumSub(NumMul(NumMul(NumDiv(t, 24), MathPI), Num(2)), NumDiv(MathPI, 2))

\* ((t / 24) * Math.PI * 2) - Math.PI / 2 with t = h + mm / 60
angleForTime(date) ==
    LET t == NumAdd(Num(getHours(date)), NumDiv(Num(getMinutes(date)), 60))
    IN NumSub(NumMul(NumMul(NumDiv(t, 24), MathPI), Num(2)), NumDiv(MathPI, 2))

----------------------------------------------------------------------------
(* Event form. *)

\* Variant: the category is not looked at.
formComplete_noCategory(fd, ft, fc) == fd # "" /\ ft # ""

\* The guard of addEvent: !formDate || !formTime || !formCategory returns.
formComplete(fd, ft, fc) == fd # "" /\ ft # "" /\ fc # ""

\* x.trim() || undefined
trimOrUndefined(s) == IF trim(s) # "" THEN trim(s) ELSE undefined

newEvent(id, fd, ft, fc, fi, fn) ==
    [id |-> id,
     datetimeISO |-> toISOString(parseDateValue(fd, ft)),
     categoryId |-> fc,
     icon |-> trimOrUndefined(fi),
     note |-> trimOrUndefined(fn)]

AddEvent ==
    /\ pc = "running"
    /\ IF ~formComplete(formDate, formTime, formCategory)
       THEN /\ lastOp' = [name |-> "addEvent", changed |-> FALSE]
            /\ UNCHANGED <<pc, storage, DEFAULT_CATEGORIES, boxSize, monthRef, categories, events,
                           formVars, catFormVars, lastWrite, inputs>>
       ELSE /\ Len(events) < MaxEvents
            /\ \E id \in uid("ev") :
                 events' = renderMonthEvents(
                     Append(events,
                         newEvent(id, formDate, formTime, formCategory, formIcon, formNote)),
                     monthRef).events
            /\ formIcon' = ""
            /\ formNote' = ""
            /\ lastOp' = [name |-> "addEvent", changed |-> TRUE]
            /\ \E writeOk \in WriteOutcomes : persistEffect(categories, events', writeOk)
            /\ UNCHANGED <<DEFAULT_CATEGORIES, boxSize, monthRef, categories, formDate, formTime,
                           formCategory, catFormVars>>

\* prev.filter(e => e.id !== id)
withoutId(evs, id) ==
    LET keep(e) == Get(e, "id") # id
    IN SelectSeq(evs, keep)

\* The "Eliminar" button of a listed event.
DeleteEvent(id) ==
    /\ pc = "running"
    /\ events' = renderMonthEvents(withoutId(events, id), monthRef).events
    /\ lastOp' = [name |-> "deleteEvent", changed |-> withoutId(events, id) # events]
    /\ \E writeOk \in WriteOutcomes : persistEffect(categories, events', writeOk)
    /\ UNCHANGED <<DEFAULT_CATEGORIES, boxSize, monthRef, categories, formVars, catFormVars>>

\* Variant: every event of that month of the year is dropped, whatever its year.
withoutMonth_anyYear(evs, mref) ==
    LET m == getMonth(mref)
        keep(ev) == getMonth(DateFromISO(ev.datetimeISO)) # m
    IN SelectSeq(evs, keep)

\* prev.filter(ev => !(d.getFullYear() === y && d.getMonth() === m))
withoutMonth(evs, mref) ==
    LET y == getFullYear(mref)
        m == getMonth(mref)
        keep(ev) == ~(getFullYear(DateFromISO(ev.datetimeISO)) = y
                      /\ getMonth(DateFromISO(ev.datetimeISO)) = m)
    IN SelectSeq(evs, keep)

ClearMonthEvents ==
    /\ pc = "running"
    /\ events' = renderMonthEvents(withoutMonth(events, monthRef), monthRef).events
    /\ lastOp' = [name |-> "clearMonthEvents",
                   changed |-> withoutMonth(events, monthRef) # events]
    /\ \E writeOk \in WriteOutcomes : persistEffect(categories, events', writeOk)
    /\ UNCHANGED <<DEFAULT_CATEGORIES, boxSize, monthRef, categories, formVars, catFormVars>>

----------------------------------------------------------------------------
(* Category form. *)

orDefault(s, dflt) == IF s # "" THEN s ELSE dflt

\* Variant: the name stored as typed.
newCategory_untrimmed(id, name, icon, color) ==
    [id |-> id, name |-> name, icon |-> orDefault(icon, "mark"),
     color |-> orDefault(color, "#0ea5e9")]

newCategory(id, name, icon, color) ==
    [id |-> id, name |-> trim(name), icon |-> orDefault(icon, "mark"),
     color |-> orDefault(color, "#0ea5e9")]

\* Variant: the new category put first.
withCategory_first(prev, cat) == <<cat>> \o prev

\* Variant: the new category takes the place of the earlier ones.
withCategory_replacing(prev, cat) == <<cat>>

\* prev => [...prev, cat]
withCategory(prev, cat) == Append(prev, cat)

AddCategory ==
    /\ pc = "running"
    /\ IF trim(newCatName) = ""
       THEN /\ lastOp' = [name |-> "addCategory", changed |-> FALSE]
            /\ UNCHANGED <<pc, storage, DEFAULT_CATEGORIES, boxSize, monthRef, categories, events,
                           formVars, catFormVars, lastWrite, inputs>>
       ELSE /\ \E id \in uid("cat") :
                 categories' = withCategory(categories,
                     newCategory(id, newCatName, newCatIcon, newCatColor))
            /\ newCatName' = ""
            /\ newCatIcon' = "mark"
            /\ lastOp' = [name |-> "addCategory", changed |-> TRUE]
            /\ \E writeOk \in WriteOutcomes : persistEffect(categories', events, writeOk)
            /\ UNCHANGED <<DEFAULT_CATEGORIES, boxSize, monthRef, events, formVars, newCatColor>>

----------------------------------------------------------------------------
(* The event list and the marks of the chart. *)

\* categories.find(c => c.id === id): the first category with that id, if any.
find(cats, id) ==
    LET hits == {i \in 1..Len(cats) : Get(cats[i], "id") = id}
    IN IF hits = {} THEN [found |-> FALSE]
       ELSE [found |-> TRUE,
             cat |-> cats[CHOOSE i \in hits : \A j \in hits : i <= j]]

\* cat?.k
catProp(r, k) == IF r.found THEN Get(r.cat, k) ELSE undefined

\* a || b on texts: b when a is undefined or empty.
orElse(a, b) == IF a # undefined /\ a # "" THEN a ELSE b

\* Variant: the category's icon takes precedence over the event's own.
displayedIcon_categoryFirst(ev, cats) ==
    orElse(catProp(find(cats, Get(ev, "categoryId")), "icon"),
           orElse(Get(ev, "icon"), "mark"))

\* ev.icon || cat?.icon || "mark", in the list and in the chart.
displayedIcon(ev, cats) ==
    orElse(Get(ev, "icon"),
           orElse(catProp(find(cats, Get(ev, "categoryId")), "icon"), "mark"))

\* cat?.name || "(sin cat)" in the list, cat?.name || "Evento" in the chart's title.
listLabel(ev, cats) ==
    orElse(catProp(find(cats, Get(ev, "categoryId")), "name"), "(sin cat)")

chartLabel(ev, cats) ==
    orElse(catProp(find(cats, Get(ev, "categoryId")), "name"), "Evento")

----------------------------------------------------------------------------
(* Form field edits (onChange handlers). *)

Edit ==
    /\ pc = "running"
    /\ inputs < MaxInputs
    /\ inputs' = inputs + 1
    /\ UNCHANGED <<pc, storage, DEFAULT_CATEGORIES, boxSize, monthRef, categories, events,
                   lastWrite, lastOp>>

SetFormDate(v) ==
    /\ v # formDate
    /\ formDate' = v
    /\ Edit
    /\ UNCHANGED <<formTime, formCategory, formIcon, formNote, catFormVars>>

SetFormTime(v) ==
    /\ v # formTime
    /\ formTime' = v
    /\ Edit
    /\ UNCHANGED <<formDate, formCategory, formIcon, formNote, catFormVars>>

\* The options of the category <select>: one per category, valued by its id.
\* The first and the last option are the ones explored.
selectOptions(cats) ==
    IF cats = <<>> THEN {} ELSE {cats[1].id, cats[Len(cats)].id}

SetFormCategory(v) ==
    /\ v # formCategory
    /\ formCategory' = v
    /\ Edit
    /\ UNCHANGED <<formDate, formTime, formIcon, formNote, catFormVars>>

SetFormIcon(v) ==
    /\ v # formIcon
    /\ formIcon' = v
    /\ Edit
    /\ UNCHANGED <<formDate, formTime, formCategory, formNote, catFormVars>>

SetFormNote(v) ==
    /\ v # formNote
    /\ formNote' = v
    /\ Edit
    /\ UNCHANGED <<formDate, formTime, formCategory, formIcon, catFormVars>>

SetNewCatName(v) ==
    /\ v # newCatName
    /\ newCatName' = v
    /\ Edit
    /\ UNCHANGED <<formVars, newCatIcon, newCatColor>>

SetNewCatIcon(v) ==
    /\ v # newCatIcon
    /\ newCatIcon' = v
    /\ Edit
    /\ UNCHANGED <<formVars, newCatName, newCatColor>>

----------------------------------------------------------------------------
(* The specification. *)

\* The ids of the events listed for the displayed month, each with its button.
listedIds == {ev.id : ev \in {monthEvents(events, monthRef)[i] :
                                i \in 1..Len(monthEvents(events, monthRef))}}

Next ==
    \/ Mount
    \/ PrevMonth
    \/ NextMonth
    \/ AddEvent
    \/ \E id \in listedIds : DeleteEvent(id)
    \/ ClearMonthEvents
    \/ AddCategory
    \/ \E v \in {""} \cup {r.text : r \in DateInputs} : SetFormDate(v)
    \/ \E v \in {""} \cup {r.text : r \in TimeInputs} : SetFormTime(v)
    \/ \E v \in selectOptions(categories) : SetFormCategory(v)
    \/ \E v \in TextInputs : SetFormIcon(v)
    \/ \E v \in TextInputs : SetFormNote(v)
    \/ \E v \in TextInputs : SetNewCatName(v)
    \/ \E v \in {""} : SetNewCatIcon(v)
    \/ \E width \in Widths : Resize(width)

Spec == Init /\ [][Next]_vars

----------------------------------------------------------------------------
(* The geometry on its own: sessions started from the defaults in which one *)
(* event has been added, at one of a range of times of day, after which     *)
(* only the size and the displayed month change.                            *)

SampleHours == {0, 5, 6, 11, 12, 17, 18, 23}
SampleMinutes == {0, 1, 30, 59}
SampleDays == {1, 31}

SampleEvents ==
    {[id |-> "ev_r1",
      datetimeISO |-> toISOString(NewDate(Today.y, Today.mo - 1, day, hours, minutes)),
      categoryId |-> "cat_d1", icon |-> undefined, note |-> undefined] :
        day \in SampleDays, hours \in SampleHours, minutes \in SampleMinutes}

GeometryInit ==
    /\ pc = "running"
    /\ DEFAULT_CATEGORIES \in {DefaultCategoriesWith(ids) : ids \in DefaultIdDraws}
    /\ categories = DEFAULT_CATEGORIES
    /\ events \in {<<ev>> : ev \in SampleEvents}
    /\ storage = LsJson(JSONstringify([categories |-> categories, events |-> events]))
    /\ monthRef = initialMonthRef
    /\ formDate = initialFormDate /\ formTime = "08:00"
    /\ formCategory = categories[1].id /\ formIcon = "" /\ formNote = ""
    /\ newCatName = "" /\ newCatIcon = "mark" /\ newCatColor = "#0ea5e9"
    /\ lastWrite = "ok"
    /\ lastOp = [name |-> "addEvent", changed |-> TRUE]
    /\ inputs = 0
    /\ boxSize = 800

GeometryNext ==
    \/ \E width \in Widths : Resize(width)
    \/ PrevMonth
    \/ NextMonth

GeometrySpec == GeometryInit /\ [][GeometryNext]_vars

----------------------------------------------------------------------------
(* Vocabulary of the properties. *)

Range(s) == {s[i] : i \in 1..Len(s)}

\* Number of positions of s holding x.
Count(s, x) == Cardinality({i \in 1..Len(s) : s[i] = x})

\* s without its i-th element.
RemoveAt(s, i) == SubSeq(s, 1, i - 1) \o SubSeq(s, i + 1, Len(s))

\* The calendar fields, in the local zone, of an event's timestamp.
LocalOf(ev) == UTCToLocal(ev.datetimeISO)

\* The year and month (1..12) a month reference displays.
DisplayedYear(mref) == mref.y
DisplayedMonth(mref) == mref.mo

InMonth(ev, mref) ==
    LocalOf(ev).y = DisplayedYear(mref) /\ LocalOf(ev).mo = DisplayedMonth(mref)

\* Month references: the first day, local midnight, of a few months.
ViewMonths ==
    {[y |-> y, mo |-> mo, d |-> 1, h |-> 0, mi |-> 0] :
        y \in {1950, 2024, 2025}, mo \in {1, 2, 12}}

\* A property of an element object is present when it exists and is not undefined.
Present(o, k) == k \in DOMAIN o /\ ~(k \in OptionalKeys /\ o[k] = undefined)

PropertyNames == {"id", "name", "icon", "color", "datetimeISO", "categoryId", "note"}

\* Two element objects with the same present properties and the same values for them.
SameObject(a, b) ==
    \A k \in PropertyNames :
        /\ Present(a, k) = Present(b, k)
        /\ Present(a, k) => a[k] = b[k]

SameList(s, t) ==
    /\ Len(s) = Len(t)
    /\ \A i \in 1..Len(s) : SameObject(s[i], t[i])

NoDuplicateIds(s) == \A i, j \in 1..Len(s) : s[i].id = s[j].id => i = j

\* The session started from the built-in default categories.
StartedFromDefaults ==
    /\ Len(categories) >= Len(DEFAULT_CATEGORIES)
    /\ SubSeq(categories, 1, Len(DEFAULT_CATEGORIES)) = DEFAULT_CATEGORIES

----------------------------------------------------------------------------
(* C1: for every event collection and every displayed month M, the month    *)
(* view holds exactly the events whose local year and month are M's, each   *)
(* as often as the collection holds it, in ascending order of day-of-month. *)
ThmC1_MonthViewExact ==
    pc = "running" =>
        \A M \in ViewMonths \cup {monthRef} :
            LET view == monthEvents(events, M)
            IN /\ \A i \in 1..Len(view) : InMonth(view[i], M)
               /\ \A ev \in Range(events) \cup Range(view) :
                      Count(view, ev) = IF InMonth(ev, M) THEN Count(events, ev) ELSE 0
               /\ \A i, j \in 1..Len(view) :
                      i < j => LocalOf(view[i]).d <= LocalOf(view[j]).d

\* Two events of the displayed month were added in descending order of day: the
\* view lists them in the other order, and some other month's view is empty.
WitC1_SortedView ==
    /\ pc = "running"
    /\ Len(events) = 2
    /\ Len(monthEvents(events, monthRef)) = 2
    /\ monthEvents(events, monthRef) # events
    /\ \E M \in ViewMonths : monthEvents(events, M) = <<>>

(* C2: after clearMonthEvents while month M is displayed, the month view    *)
(* of M is empty, and the collection is the old one without the events of   *)
(* M: every event of another month is kept, unchanged, in the same order.   *)
ThmC2_ClearMonth ==
    [][ClearMonthEvents =>
          LET outside(ev) == ~InMonth(ev, monthRef)
          IN /\ monthRef' = monthRef
             /\ monthEvents(events', monthRef) = <<>>
             /\ events' = SelectSeq(events, outside)]_vars

\* clearMonthEvents ran after a navigation away from the starting month, removed
\* something and left an event of another month in the collection.
WitC2_ClearedAfterNavigation ==
    /\ pc = "running"
    /\ lastOp = [name |-> "clearMonthEvents", changed |-> TRUE]
    /\ monthRef # initialMonthRef
    /\ Len(events) = 1
    /\ monthEvents(events, monthRef) = <<>>

(* C3: deleteEvent(id) removes exactly one event, the listed one with that  *)
(* id, and keeps every other event in place; an id that no event has        *)
(* leaves the collection as it is.                                          *)
CexC3_DeleteRemovesExactlyOne ==
    [][/\ \A id \in listedIds :
             DeleteEvent(id) =>
                 \E i \in 1..Len(events) :
                     events[i].id = id /\ events' = RemoveAt(events, i)
       /\ \A id \in uid("ev") \ {ev.id : ev \in Range(events)} :
             withoutId(events, id) = events]_vars

(* C4: a submission with date, time and category set appends exactly one    *)
(* event at the end, carrying the submitted local date and time and the     *)
(* category id, without icon / note when these are blank after trimming;    *)
(* the earlier events, the categories and the displayed month are unchanged.*)
CexC4_AddEventCarriesSubmission ==
    [][(AddEvent /\ formDate # "" /\ formTime # "" /\ formCategory # "") =>
          /\ Len(events') = Len(events) + 1
          /\ SubSeq(events', 1, Len(events)) = events
          /\ LET ev == events'[Len(events')]
                 sd == SplitDate(formDate)
                 st == SplitTime(formTime)
             IN /\ LocalOf(ev).y = sd.y /\ LocalOf(ev).mo = sd.m /\ LocalOf(ev).d = sd.d
                /\ LocalOf(ev).h = st.hh /\ LocalOf(ev).mi = st.mm
                /\ ev.categoryId = formCategory
                /\ trim(formIcon) = "" => ~Present(ev, "icon")
                /\ trim(formNote) = "" => ~Present(ev, "note")
          /\ categories' = categories
          /\ monthRef' = monthRef]_vars

(* C5: whenever the latest storage write succeeded, the stored item         *)
(* decodes to lists equal to the in-memory categories and events: after the *)
(* initial load and after addEvent, addCategory, deleteEvent and            *)
(* clearMonthEvents no change is left unpersisted.                          *)
ThmC5_StoredEqualsMemory ==
    (pc = "running" /\ lastWrite = "ok") =>
        LET c == OptProp(loadState(storage), "categories")
            e == OptProp(loadState(storage), "events")
        IN /\ IsArray(c) /\ SameList(c.v, categories)
           /\ IsArray(e) /\ SameList(e.v, events)

\* A category and then an event were added, both persisted; the event has no
\* icon, which the stored text omits.
WitC5_PersistedAfterChanges ==
    /\ pc = "running"
    /\ lastWrite = "ok"
    /\ lastOp = [name |-> "addEvent", changed |-> TRUE]
    /\ Len(categories) = Len(DEFAULT_CATEGORIES) + 1
    /\ events # <<>>
    /\ \E i \in 1..Len(events) : events[i].icon = undefined
    /\ storage = LsJson(JSONstringify([categories |-> categories, events |-> events]))

(* C6: mounting with the stored item absent, empty or not parsable gives    *)
(* the 6 built-in default categories and no events.                         *)
ThmC6_FallbackToDefaults ==
    [][(Mount /\ storage.k \in {"absent", "text"}) =>
          /\ pc' = "running"
          /\ categories' = DEFAULT_CATEGORIES
          /\ Len(categories') = 6
          /\ events' = <<>>]_vars

\* Mounted from a text that is not JSON (which is still stored, the first write
\* having failed): the defaults and no events.
WitC6_MountedFromInvalidText ==
    /\ pc = "running"
    /\ lastOp.name = "mount"
    /\ storage = LsText("not json")
    /\ Len(categories) = 6
    /\ events = <<>>

(* C7: whatever is stored, mounting never fails: the app runs, with         *)
(* categories and events that are lists.                                    *)
CexC7_MountNeverFails ==
    lastOp.name = "mount" => pc = "running"

\* A step of a handler whose storage write fails.
WriteFailedStep ==
    /\ \/ Mount
       \/ AddEvent
       \/ \E id \in listedIds : DeleteEvent(id)
       \/ ClearMonthEvents
       \/ AddCategory
    /\ inputs' = inputs + 1

CexC9_IdsUnique ==
    (pc = "running" /\ StartedFromDefaults) =>
        NoDuplicateIds(events) /\ NoDuplicateIds(categories)

(* C10: a submission with the date, the time or the category missing        *)
(* changes nothing: no event is created; events, categories, displayed      *)
(* month, both forms and the stored item stay as they are.                  *)
ThmC10_IncompleteSubmissionNoOp ==
    [][(AddEvent /\ (formDate = "" \/ formTime = "" \/ formCategory = "")) =>
          UNCHANGED <<pc, events, categories, monthRef, formVars, catFormVars,
                      storage, lastWrite>>]_vars

\* addEvent returned at its guard with a field of the form missing.
WitC10_RejectedSubmission ==
    /\ pc = "running"
    /\ lastOp = [name |-> "addEvent", changed |-> FALSE]
    /\ formDate = "" \/ formTime = "" \/ formCategory = ""

(* C11: deriving the month view never changes the event collection: the    *)
(* render after navigation to another month leaves the collection with the  *)
(* same content in the same order, the render after an accepted addEvent    *)
(* leaves the earlier events in place with the new one last, and a render   *)
(* of any reachable collection for any month leaves it as it is.            *)
ThmC11_ViewIsProjection ==
    [][/\ (PrevMonth \/ NextMonth) => events' = events
       /\ (AddEvent /\ formComplete(formDate, formTime, formCategory)) =>
             SubSeq(events', 1, Len(events)) = events
       /\ pc' = "running" =>
             \A M \in ViewMonths \cup {monthRef'} :
                 renderMonthEvents(events', M).events = events']_vars

\* Back on the starting month after navigating away: two events of the displayed
\* month are stored in descending order of day, the view lists them ascending.
WitC11_UnsortedSourceKept ==
    /\ pc = "running"
    /\ Len(events) = 2
    /\ LocalOf(events[1]).d > LocalOf(events[2]).d
    /\ renderMonthEvents(events, monthRef).events = events
    /\ renderMonthEvents(events, monthRef).monthEvents = <<events[2], events[1]>>

\* The state read back from the text that saving the current state writes.
RoundTrip ==
    loadState(saveState(LsAbsent, [categories |-> categories, events |-> events],
                        TRUE).storage)

(* C12: for every reachable state, the text written for {categories,        *)
(* events} reads back as two lists with the same elements in the same       *)
(* order, each element with the same fields and values; an icon or note     *)
(* that is absent in memory is absent in what is read back.                 *)
ThmC12_RoundTrip ==
    pc = "running" =>
        LET c == OptProp(RoundTrip, "categories")
            e == OptProp(RoundTrip, "events")
        IN /\ IsArray(c) /\ SameList(c.v, categories)
           /\ IsArray(e) /\ SameList(e.v, events)
           /\ \A i \in 1..Len(events) : \A k \in OptionalKeys :
                  Present(e.v[i], k) = Present(events[i], k)

\* An event with an icon and without a note: the text holds the icon and no
\* note property.
WitC12_IconKeptNoteAbsent ==
    /\ pc = "running"
    /\ Len(events) = 1
    /\ Present(events[1], "icon")
    /\ ~Present(events[1], "note")
    /\ LET e == OptProp(RoundTrip, "events").v[1]
       IN "icon" \in DOMAIN e /\ "note" \notin DOMAIN e /\ e.icon = events[1].icon

(* C13: once the app runs, every step leaves each category in the           *)
(* collection, with the same fields at the same position: the collection    *)
(* either stays as it is or grows by one category at its end, and it grows  *)
(* only in an accepted addCategory.                                         *)
ThmC13_CategoriesOnlyAppended ==
    [][pc = "running" =>
          /\ \/ categories' = categories
             \/ /\ Len(categories') = Len(categories) + 1
                /\ SubSeq(categories', 1, Len(categories)) = categories
          /\ categories' # categories => (AddCategory /\ trim(newCatName) # "")]_vars

\* An event was added and deleted after a category had been added: the six
\* defaults and the added category are all still there, in place.
WitC13_CategoryKept ==
    /\ pc = "running"
    /\ lastOp = [name |-> "deleteEvent", changed |-> TRUE]
    /\ Len(categories) = Len(DEFAULT_CATEGORIES) + 1
    /\ SubSeq(categories, 1, Len(DEFAULT_CATEGORIES)) = DEFAULT_CATEGORIES
    /\ categories[Len(categories)].name = "x"

(* C14: in a session started from the default categories every category    *)
(* has a non-empty name at all times; addCategory with a name that is empty *)
(* or only whitespace leaves the categories (and the stored item) as they   *)
(* are, and an accepted name is stored trimmed.                             *)
ThmC14_CategoryNamesNonEmpty ==
    [][/\ (pc' = "running" /\ StartedFromDefaults') =>
             \A i \in 1..Len(categories') : categories'[i].name # ""
       /\ AddCategory =>
             IF trim(newCatName) = ""
             THEN UNCHANGED <<categories, storage, lastWrite>>
             ELSE categories'[Len(categories')].name = trim(newCatName)]_vars

\* The name " x " was accepted and stored as "x"; the next submission, with the
\* name field empty again, was rejected.
WitC14_TrimmedThenRejected ==
    /\ pc = "running"
    /\ lastOp = [name |-> "addCategory", changed |-> FALSE]
    /\ newCatName = ""
    /\ StartedFromDefaults
    /\ Len(categories) = Len(DEFAULT_CATEGORIES) + 1
    /\ categories[Len(categories)].name = "x"

\* The month reference of the month an event lies in.
MonthOf(ev) == NewDate(LocalOf(ev).y, LocalOf(ev).mo - 1, 1, 0, 0)

\* The positions of the categories an event's categoryId matches.
Referenced(ev, cats) == {j \in 1..Len(cats) : cats[j].id = ev.categoryId}

(* C15: after every step that leaves the app running, each event is shown   *)
(* with its own icon when it has one, otherwise with the icon of the        *)
(* (first) category its categoryId matches, otherwise with the default      *)
(* glyph; an event whose categoryId matches no category is in the view of   *)
(* its month, with the default glyph unless it has its own icon and with    *)
(* the placeholder labels; and the app, once running, keeps running.        *)
ThmC15_IconFallback ==
    [][/\ pc = "running" => pc' = "running"
       /\ pc' = "running" =>
             \A i \in 1..Len(events') :
                 LET ev == events'[i]
                     own == Present(ev, "icon") /\ ev.icon # ""
                     refs == Referenced(ev, categories')
                     first == categories'[CHOOSE j \in refs : \A k \in refs : j <= k]
                     shown == displayedIcon(ev, categories')
                 IN /\ own => shown = ev.icon
                    /\ (~own /\ refs # {}) =>
                          shown = IF first.icon # "" THEN first.icon ELSE "mark"
                    /\ refs = {} =>
                          /\ ~own => shown = "mark"
                          /\ listLabel(ev, categories') = "(sin cat)"
                          /\ chartLabel(ev, categories') = "Evento"
                          /\ ev \in Range(monthEvents(events', MonthOf(ev)))]_vars

\* Mounted from a stored state whose only event has no icon and names a category
\* that does not exist, a category having been added since: the event is listed
\* for its month with the default glyph and the placeholder label.
WitC15_DanglingReference ==
    /\ pc = "running"
    /\ lastOp = [name |-> "addCategory", changed |-> TRUE]
    /\ Len(events) = 1
    /\ ~Present(events[1], "icon")
    /\ Referenced(events[1], categories) = {}
    /\ events[1] \in Range(monthEvents(events, monthRef))
    /\ displayedIcon(events[1], categories) = "mark"
    /\ listLabel(events[1], categories) = "(sin cat)"

\* The whole pixels of a width given in tenths of a pixel.
WholePixels(width) == CHOOSE n \in 0..(width + 1) : 10 * n <= width /\ width < 10 * (n + 1)

(* C19: the chart size is 800 until the first observation, every            *)
(* observation of a width w sets it to min(max(320, floor(w)), 1100), and   *)
(* it is within [320, 1100] before and after every step.                    *)
ThmC19_SizeWithinRange ==
    [][/\ boxSize \in 320..1100 /\ boxSize' \in 320..1100
       /\ pc = "boot" => (boxSize = 800 /\ boxSize' = 800)
       /\ \A width \in Widths :
             Resize(width) =>
                 LET px == WholePixels(width)
                 IN boxSize' = IF px < 320 THEN 320 ELSE IF px > 1100 THEN 1100 ELSE px]_vars

\* A width of 299.9 pixels was observed: the size is the minimum.
WitC19_ClampedToMinimum ==
    /\ pc = "running"
    /\ boxSize = 320
    /\ boxSize # observedSize_noMinimum(2999)
    /\ inputs = 1

(* C20: an observation of a width changes nothing but the size: events,     *)
(* categories, displayed month and stored item stay as they are; and after  *)
(* it, observing the same width again gives the size there already is       *)
(* (innerRadius, outerRadius and labelMargin are computed from the size     *)
(* alone, so they stay as well).                                            *)
ThmC20_ResizeIdempotent ==
    [][\A width \in Widths :
          Resize(width) =>
              /\ UNCHANGED <<events, categories, monthRef, storage, lastWrite>>
              /\ nextBoxSize(boxSize', width) = boxSize']_vars

\* With an event stored and another month displayed, a width of 1041.6 pixels was
\* observed: the size is 1041, and observing 1041.6 again leaves the size and
\* with it the radii and the label margin where they are.
WitC20_ResizedWithEvents ==
    /\ pc = "running"
    /\ boxSize = 1041
    /\ events # <<>>
    /\ monthRef # initialMonthRef
    /\ storage = LsJson(JSONstringify([categories |-> categories, events |-> events]))
    /\ nextBoxSize(boxSize, 10416) = boxSize
    /\ layout(nextBoxSize(boxSize, 10416), monthRef) = layout(boxSize, monthRef)
    /\ layoutWithLabels(nextBoxSize(boxSize, 10416), monthRef)
           = layoutWithLabels(boxSize, monthRef)

\* The layouts of the two variants for the current size and displayed month.
Layouts == {layout(boxSize, monthRef), layoutWithLabels(boxSize, monthRef)}

(* C16: for the current chart size and ring count, radiusForDay(ringCount)  *)
(* equals outerRadius, radiusForDay(1) equals innerRadius + ringStep, and   *)
(* radiusForDay is non-decreasing in day over [1, ringCount].               *)
CexC16_RadiusSpansRings ==
    pc = "running" =>
        \A L \in Layouts :
            /\ radiusForDay(L.ringCount, L) = L.outerR
            /\ radiusForDay(1, L) = NumAdd(L.innerR, L.ringStep)
            /\ \A day \in 1..(L.ringCount - 1) :
                   ~NumLess(radiusForDay(day + 1, L), radiusForDay(day, L))

(* C17: radiusForDay clamps its argument: each day below 1 gets the radius  *)
(* of day 1 and each day above ringCount (up to ringCount + 5) the radius   *)
(* of day ringCount, for the current size and ring count, in both layouts.  *)
ThmC17_RadiusClamped ==
    pc = "running" =>
        \A L \in Layouts :
            /\ radiusForDay(0, L) = radiusForDay(1, L)
            /\ radiusForDay(L.ringCount + 5, L) = radiusForDay(L.ringCount, L)
            /\ \A day \in 1..4 :
                   /\ radiusForDay(1 - day, L) = radiusForDay(1, L)
                   /\ radiusForDay(L.ringCount + day, L) = radiusForDay(L.ringCount, L)

\* Size 1041 with the 28 rings of February: days 0 and 33 are drawn on the rings
\* of days 1 and 28, which are different rings from those of days 2 and 27.
WitC17_ClampedBothEnds ==
    /\ pc = "running"
    /\ boxSize = 1041
    /\ nDays(monthRef) = 28
    /\ LET L == layout(boxSize, monthRef)
       IN /\ radiusForDay(0, L) = radiusForDay(1, L)
          /\ NumLess(radiusForDay(0, L), radiusForDay(2, L))
          /\ radiusForDay(33, L) = radiusForDay(28, L)
          /\ NumLess(radiusForDay(27, L), radiusForDay(33, L))

\* The minute of the day of a Date, and the Date one minute later on the same day.
MinuteOfDay(date) == 60 * getHours(date) + getMinutes(date)

MinuteLater(date) ==
    IF getMinutes(date) < 59 THEN [date EXCEPT !.mi = date.mi + 1]
    ELSE [date EXCEPT !.h = date.h + 1, !.mi = 0]

\* |720 * angle - (k - 360) * Math.PI| <= 720 * 2^-49: the angle is k/1440 of a
\* turn past the top, to within the rounding of the five operations.
AtMinuteOfTurn(angle, k) ==
    LET lhs == BigMulSmall(angle.mag, 720)
        rhs == BigMulSmall(MathPI.mag, IF k < 360 THEN 360 - k ELSE k - 360)
        diff == IF BigCmp(lhs, rhs) >= 0 THEN BigSub(lhs, rhs) ELSE BigSub(rhs, lhs)
    IN /\ angle.neg = (k < 360)
       /\ (angle.mag = <<>>) = (k = 360)
       /\ BigCmp(diff, BigMulSmall(BigShiftLeft(<<1>>, FracBits - 49), 720)) <= 0

CexC21_SubmissionCreatesReferencedEvent ==
    [][(AddEvent /\ categories # <<>> /\ formDate # "" /\ formTime # "") =>
          /\ Len(events') = Len(events) + 1
          /\ Referenced(events'[Len(events')], categories) # {}]_vars

\* Every event of the collection has the id of a category as its categoryId.
AllReferenced(evs, cats) == \A i \in 1..Len(evs) : Referenced(evs[i], cats) # {}

(* C22: no operation of the running app creates a dangling reference: a     *)
(* step taken when every event's categoryId is the id of a category leads   *)
(* to a state in which that is still so.                                    *)
ThmC22_ReferencesPreserved ==
    [][(pc = "running" /\ AllReferenced(events, categories)) =>
          AllReferenced(events', categories')]_vars

\* Two events of default categories are kept, a category has been added and
\* another month is displayed.
WitC22_ReferencedAfterOperations ==
    /\ pc = "running"
    /\ StartedFromDefaults
    /\ Len(categories) > Len(DEFAULT_CATEGORIES)
    /\ Len(events) = 2
    /\ AllReferenced(events, categories)
    /\ monthRef # initialMonthRef

\* The day the chart passes to radiusForDay for an event: new Date(ev.datetimeISO).getDate()
drawnDay(ev) == getDate(DateFromISO(ev.datetimeISO))

(* C23: every event the chart draws (the events of the displayed month) has *)
(* its day of the month within 1..ringCount, where ringCount is the number  *)
(* of days of the displayed month, so that the clamp of radiusForDay leaves *)
(* the day as it is.                                                        *)
ThmC23_DrawnDaysWithinRings ==
    pc = "running" =>
        \A i \in 1..Len(monthEvents(events, monthRef)) :
            LET day == drawnDay(monthEvents(events, monthRef)[i])
            IN /\ day \in 1..nDays(monthRef)
               /\ clamp(day, 1, nDays(monthRef)) = day

\* After navigating to another month, an added event of its last day is drawn
\* on the outermost ring.
WitC23_LastDayDrawn ==
    /\ pc = "running"
    /\ monthRef # initialMonthRef
    /\ lastOp = [name |-> "addEvent", changed |-> TRUE]
    /\ \E i \in 1..Len(monthEvents(events, monthRef)) :
           drawnDay(monthEvents(events, monthRef)[i]) = nDays(monthRef)

(* C24: for the current size and ring count, in both layouts, innerRadius   *)
(* is less than outerRadius, ringStep is strictly positive, the ring radii  *)
(* strictly increase with the day, and every ring radius is greater than    *)
(* innerRadius, at most outerRadius and less than half the size.            *)
CexC24_RingsWithinBand ==
    pc = "running" =>
        \A L \in Layouts :
            /\ NumLess(L.innerR, L.outerR)
            /\ NumLess(Num(0), L.ringStep)
            /\ \A day \in 1..(L.ringCount - 1) :
                   NumLess(radiusForDay(day, L), radiusForDay(day + 1, L))
            /\ \A day \in 1..L.ringCount :
                   /\ NumLess(L.innerR, radiusForDay(day, L))
                   /\ ~NumLess(L.outerR, radiusForDay(day, L))
                   /\ NumLess(radiusForDay(day, L), NumDiv(Num(L.size), 2))

\* A Date that is the first day of its month, at 00:00 local time.
FirstOfMonth(date) == getDate(date) = 1 /\ getHours(date) = 0 /\ getMinutes(date) = 0

(* C25: each "previous" step moves the month reference to the first day of  *)
(* the month one before and each "next" step to the first day of the month  *)
(* one after, across year boundaries, so that after a sequence of steps the *)
(* reference is (number of next - number of previous) months from the start;*)
(* each of the two undoes the other; and neither changes the events or the  *)
(* categories.                                                              *)
ThmC25_MonthNavigation ==
    [][/\ PrevMonth =>
            /\ monthIndex(monthRef') = monthIndex(monthRef) - 1
            /\ FirstOfMonth(monthRef')
            /\ nextMonthRef(monthRef') = monthRef
            /\ UNCHANGED <<events, categories>>
       /\ NextMonth =>
            /\ monthIndex(monthRef') = monthIndex(monthRef) + 1
            /\ FirstOfMonth(monthRef')
            /\ prevMonthRef(monthRef') = monthRef
            /\ UNCHANGED <<events, categories>>]_vars

\* December of the year before is displayed, with events kept: "next" leads back
\* to the starting month and "previous" from there to December again.
WitC25_AcrossYearBoundary ==
    /\ pc = "running"
    /\ events # <<>>
    /\ getFullYear(monthRef) = getFullYear(initialMonthRef) - 1
    /\ getMonth(monthRef) = 11
    /\ nextMonthRef(monthRef) = initialMonthRef
    /\ prevMonthRef(nextMonthRef(monthRef)) = monthRef
====
